---- MODULE Spec2Model ----
(***************************************************************************)
(* Conway's Game of Life: the Board of conway/board.py.                    *)
(*                                                                         *)
(* A Python grid is a list of row lists.  Rows are objects with identity,  *)
(* so the model keeps them in a heap: heap[a] is the row object at address *)
(* a, and a grid (an outer list) is the sequence of its rows' addresses.   *)
(* Coordinates are 0-based as in the code; heap rows are TLA+ sequences,   *)
(* so position i of a list is element i+1 of its sequence.                 *)
(***************************************************************************)
EXTENDS Integers, Sequences, FiniteSets

VARIABLES heap, boards, source, calls, last, prev, run

vars == <<heap, boards, source, calls, last, prev, run>>

\* Program constants.
DEFAULT_BOARD_SIZE_X == 32
DEFAULT_BOARD_SIZE_Y == 24
CELL_COUNT_HORIZONTAL == 32
CELL_COUNT_VERTICAL == 24

\* Bounds of the model.
MaxW == 3
MaxH == 2
MaxOps == 2
MaxExtra == 2
MaxRun == 4
MaxGenerations == 92

----------------------------------------------------------------------------
\* Python helpers.

\* max(a, b) and min(a, b).
Max(a, b) == IF a >= b THEN a ELSE b
Min(a, b) == IF a <= b THEN a ELSE b

\* list[i] for a list of length n: the 1-based position read or written, with
\* Python's negative indices counting from the end; 0 stands for IndexError.
PyIndex(n, i) ==
    IF 0 <= i /\ i < n THEN i + 1
    ELSE IF i < 0 /\ -n <= i THEN n + i + 1
    ELSE 0

\* [False] * n: a negative n gives the empty list.
DeadRow(n) == [i \in 1..Max(0, n) |-> FALSE]

\* [[False] * size_x for i in range(size_y)]: size_y distinct row objects.
NewRows(size_x, size_y) == [i \in 1..Max(0, size_y) |-> DeadRow(size_x)]

\* The addresses n fresh objects get when appended to heap h.
Fresh(h, n) == [i \in 1..n |-> Len(h) + i]

\* The contents of grid g in heap h, as a list of rows of booleans.
Contents(h, g) == [i \in 1..Len(g) |-> h[g[i]]]


----------------------------------------------------------------------------
\* Board.__init__

\* The "grid" argument left at its default None.
NoGrid == [none |-> TRUE, rows |-> <<>>]

\* The first position of grid g that holds the same row object as position i.
FirstAt(g, i) == CHOOSE j \in 1..i : g[j] = g[i] /\ \A k \in 1..(j - 1) : g[k] # g[i]

\* The positions of g that hold a row object not seen at an earlier position.
Firsts(g) == SelectSeq([i \in 1..Len(g) |-> i], LAMBDA i : FirstAt(g, i) = i)

\* self.grid = grid: no copy, the Board keeps the caller's list and rows.
Alias(h, g) == [heap |-> h, grid |-> g]

\* copy.deepcopy(grid) in heap h: a new outer list whose rows are new row
\* objects, one per distinct row object of grid (deepcopy's memo keeps a row
\* that occurs twice in grid a single object in the copy).
DeepCopy(h, g) ==
    LET firsts == Firsts(g)
        rank(i) == CHOOSE k \in 1..Len(firsts) : firsts[k] = FirstAt(g, i)
    IN  [heap |-> h \o [k \in 1..Len(firsts) |-> h[g[firsts[k]]]],
         grid |-> [i \in 1..Len(g) |-> Len(h) + rank(i)]]

\* The constructor without its "else": the grid argument is never looked at.
BoardInitBySize(h, size_x, size_y, grid) ==
    [heap |-> h \o NewRows(size_x, size_y),
     grid |-> Fresh(h, Max(0, size_y))]

\* Board(size_x, size_y, grid) in heap h: the heap after construction and the
\* new Board's self.grid.  No path of the constructor raises.
BoardInit(h, size_x, size_y, grid) ==
    IF grid.none
    THEN [heap |-> h \o NewRows(size_x, size_y),
          grid |-> Fresh(h, Max(0, size_y))]
    ELSE DeepCopy(h, grid.rows)

----------------------------------------------------------------------------
\* Board.toggle

\* self.grid[y][x] = True: the cell is set, not flipped.
toggle_set(h, g, x, y) ==
    LET iy == PyIndex(Len(g), y)
        ix == IF iy = 0 THEN 0 ELSE PyIndex(Len(h[g[iy]]), x)
    IN  IF iy = 0 \/ ix = 0
        THEN [raised |-> TRUE, heap |-> h]
        ELSE [raised |-> FALSE, heap |-> [h EXCEPT ![g[iy]][ix] = TRUE]]

\* The whole row y is flipped, not the one cell.
toggle_row(h, g, x, y) ==
    LET iy == PyIndex(Len(g), y)
        ix == IF iy = 0 THEN 0 ELSE PyIndex(Len(h[g[iy]]), x)
    IN  IF iy = 0 \/ ix = 0
        THEN [raised |-> TRUE, heap |-> h]
        ELSE [raised |-> FALSE,
              heap |-> [h EXCEPT ![g[iy]] = [i \in 1..Len(@) |-> ~@[i]]]]

\* self.grid[y][x] = not self.grid[y][x] on the Board whose self.grid is g.
\* Reading self.grid[y] and then [x] raises IndexError before anything is
\* written; negative indices that Python accepts count from the end.
toggle(h, g, x, y) ==
    LET iy == PyIndex(Len(g), y)
        ix == IF iy = 0 THEN 0 ELSE PyIndex(Len(h[g[iy]]), x)
    IN  IF iy = 0 \/ ix = 0
        THEN [raised |-> TRUE, heap |-> h]
        ELSE [raised |-> FALSE, heap |-> [h EXCEPT ![g[iy]][ix] = ~@]]

----------------------------------------------------------------------------
\* Board._get_neighbour_count

\* The inner loop: neighbour_x from nx up to (not including) hi, on row ny.
RECURSIVE CountX(_, _, _, _, _, _, _)
CountX(h, g, x, y, ny, nx, hi) ==
    IF nx >= hi THEN 0
    ELSE (IF ~(nx = x /\ ny = y) /\ h[g[ny + 1]][nx + 1] THEN 1 ELSE 0)
         + CountX(h, g, x, y, ny, nx + 1, hi)

\* The outer loop: neighbour_y from ny up to (not including) hi.
RECURSIVE CountY(_, _, _, _, _, _)
CountY(h, g, x, y, ny, hi) ==
    IF ny >= hi THEN 0
    ELSE CountX(h, g, x, y, ny, Max(0, x - 1), Min(x + 2, Len(h[g[ny + 1]])))
         + CountY(h, g, x, y, ny + 1, hi)

\* The scan without max(0, ...): range(y-1, ...) and range(x-1, ...) start at
\* -1 for a cell on the top or left edge, and Python's index -1 is the last
\* row or column.
get_neighbour_count_unclamped(h, g, x, y) ==
    Cardinality({p \in ((x - 1)..(Min(x + 2, Len(h[g[y + 1]])) - 1))
                       \X ((y - 1)..(Min(y + 2, Len(g)) - 1)) :
                   /\ p # <<x, y>>
                   /\ h[g[PyIndex(Len(g), p[2])]]
                       [PyIndex(Len(h[g[PyIndex(Len(g), p[2])]]), p[1])]})

\* The scan with modular indexing: the grid as a torus.
get_neighbour_count_torus(h, g, x, y) ==
    Cardinality({p \in ((x - 1)..(x + 1)) \X ((y - 1)..(y + 1)) :
                   /\ p # <<x, y>>
                   /\ h[g[(p[2] % Len(g)) + 1]]
                       [(p[1] % Len(h[g[(p[2] % Len(g)) + 1]])) + 1]})

\* The coordinates whose cell the scan reads (self.grid[neighbour_y]
\* [neighbour_x]), with the ranges starting at y-1 and x-1 unclamped.
ProbesUnclamped(h, g, x, y) ==
    UNION {{<<nx, ny>> : nx \in {k \in (x - 1)..(Min(x + 2, Len(h[g[y + 1]])) - 1) :
                                  ~(k = x /\ ny = y)}} :
           ny \in (y - 1)..(Min(y + 2, Len(g)) - 1)}

\* The coordinates whose cell the scan reads: neighbour_y and neighbour_x over
\* the two clamped ranges, the cell (x, y) itself skipped.
Probes(h, g, x, y) ==
    UNION {{<<nx, ny>> : nx \in {k \in Max(0, x - 1)..(Min(x + 2, Len(h[g[ny + 1]])) - 1) :
                                  ~(k = x /\ ny = y)}} :
           ny \in Max(0, y - 1)..(Min(y + 2, Len(g)) - 1)}

get_neighbour_count(h, g, x, y) ==
    CountY(h, g, x, y, Max(0, y - 1), Min(y + 2, Len(g)))

----------------------------------------------------------------------------
\* Board.next_step

\* next_board.grid[y][x] = v, where nb is next_board.grid; x and y are never
\* negative here, so the store raises IndexError exactly when next_board has
\* no row y or its row y has no position x.
Store(h, nb, x, y, v) ==
    LET iy == PyIndex(Len(nb), y)
        ix == IF iy = 0 THEN 0 ELSE PyIndex(Len(h[nb[iy]]), x)
    IN  IF iy = 0 \/ ix = 0
        THEN [raised |-> TRUE, heap |-> h]
        ELSE [raised |-> FALSE, heap |-> [h EXCEPT ![nb[iy]][ix] = v]]

\* The rule with "neighbour_count >= 3" for a dead cell.
StepCellBirthFrom3(h, g, nb, x, y) ==
    LET neighbour_count == get_neighbour_count(h, g, x, y)
    IN  IF h[g[y + 1]][x + 1]
        THEN IF neighbour_count < 2 THEN Store(h, nb, x, y, FALSE)
             ELSE IF neighbour_count > 3 THEN Store(h, nb, x, y, FALSE)
             ELSE Store(h, nb, x, y, TRUE)
        ELSE IF neighbour_count >= 3 THEN Store(h, nb, x, y, TRUE)
             ELSE [raised |-> FALSE, heap |-> h]

\* The rule with "neighbour_count <= 2" for a live cell.
StepCellDiesAt2(h, g, nb, x, y) ==
    LET neighbour_count == get_neighbour_count(h, g, x, y)
    IN  IF h[g[y + 1]][x + 1]
        THEN IF neighbour_count <= 2 THEN Store(h, nb, x, y, FALSE)
             ELSE IF neighbour_count > 3 THEN Store(h, nb, x, y, FALSE)
             ELSE Store(h, nb, x, y, TRUE)
        ELSE IF neighbour_count = 3 THEN Store(h, nb, x, y, TRUE)
             ELSE [raised |-> FALSE, heap |-> h]

\* The body of the two loops for one cell (x, y) of self.grid = g.  A dead cell
\* whose count is not 3 stores nothing.
StepCell(h, g, nb, x, y) ==
    LET neighbour_count == get_neighbour_count(h, g, x, y)
    IN  IF h[g[y + 1]][x + 1]
        THEN IF neighbour_count < 2 THEN Store(h, nb, x, y, FALSE)
             ELSE IF neighbour_count > 3 THEN Store(h, nb, x, y, FALSE)
             ELSE Store(h, nb, x, y, TRUE)
        ELSE IF neighbour_count = 3 THEN Store(h, nb, x, y, TRUE)
             ELSE [raised |-> FALSE, heap |-> h]

\* for x in range(len(self.grid[y])), from x on; an IndexError ends the loop.
RECURSIVE StepX(_, _, _, _, _)
StepX(h, g, nb, x, y) ==
    IF x >= Len(h[g[y + 1]]) THEN [raised |-> FALSE, heap |-> h]
    ELSE LET r == StepCell(h, g, nb, x, y)
         IN  IF r.raised THEN r ELSE StepX(r.heap, g, nb, x + 1, y)

\* for y in range(len(self.grid)), from y on.
RECURSIVE StepY(_, _, _, _)
StepY(h, g, nb, y) ==
    IF y >= Len(g) THEN [raised |-> FALSE, heap |-> h]
    ELSE LET r == StepX(h, g, nb, 0, y)
         IN  IF r.raised THEN r ELSE StepY(r.heap, g, nb, y + 1)

\* next_step that stores into self.grid and returns self.
next_step_in_place(h, g) ==
    LET r == StepY(h, g, g, 0)
    IN  [raised |-> r.raised, heap |-> r.heap, grid |-> g]

\* self.next_step() on the Board whose self.grid is g: next_board = Board()
\* with the default sizes, then the loops.  When a store raises, the exception
\* leaves next_step and next_board is unreachable, so the heap is as before.
next_step(h, g) ==
    LET nb == BoardInit(h, DEFAULT_BOARD_SIZE_X, DEFAULT_BOARD_SIZE_Y, NoGrid)
        r  == StepY(nb.heap, g, nb.grid, 0)
    IN  IF r.raised
        THEN [raised |-> TRUE, heap |-> h, grid |-> <<>>]
        ELSE [raised |-> FALSE, heap |-> r.heap, grid |-> nb.grid]

----------------------------------------------------------------------------
\* The calls a client of Board makes.  boards[b] is the self.grid of the b-th
\* Board object created; source is the grid the caller built itself; last
\* records the latest call and prev the heap as it was before that call.

\* op is the call, b its receiver (or the Board whose grid is copied), x and y
\* its arguments, raised whether it raised, made the Board it returned (0 for
\* none), twice whether the call before it was the same call on the same
\* receiver and neither raised.
Call(op, b, x, y, raised, made, twice) ==
    [op |-> op, b |-> b, x |-> x, y |-> y, raised |-> raised, made |-> made,
     twice |-> twice]

\* Arguments the caller passes.
Sizes == {-1, 0, 2}
Coords == {-3, -1, 0, 1, 2}

\* Rows of booleans of length n, and the grids of rows rows of that length.
RowsOf(n) == [1..n -> BOOLEAN]
RectGrids(w, rows) == [1..rows -> RowsOf(w)]

\* The caller's grid literals: every rectangular grid within the bounds.
AllGrids == UNION {RectGrids(w, rows) : w \in 1..MaxW, rows \in 1..MaxH}

\* Grid literals one column wider or one row taller than the default Board,
\* with any cells of the last three columns or rows live.
WideGrids ==
    { <<[x \in 1..(DEFAULT_BOARD_SIZE_X + 1) |-> x \in live]>> :
        live \in SUBSET ((DEFAULT_BOARD_SIZE_X - 1)..(DEFAULT_BOARD_SIZE_X + 1)) }
TallGrids ==
    { [y \in 1..(DEFAULT_BOARD_SIZE_Y + 1) |-> <<y \in live>>] :
        live \in SUBSET ((DEFAULT_BOARD_SIZE_Y - 1)..(DEFAULT_BOARD_SIZE_Y + 1)) }

\* A few grid literals: rectangular, empty, and with rows of unequal length.
SampleGrids ==
    { <<<<FALSE, TRUE>>, <<TRUE, TRUE>>>>,
      <<<<TRUE, FALSE, TRUE>>>>,
      <<>>,
      <<<<>>>>,
      <<<<TRUE>>, <<FALSE, TRUE>>>>,
      <<<<FALSE, FALSE>>, <<>>>> }

\* The state of a driver (see the drivers below); a client that only makes
\* calls has none.
NoRun == [pc |-> "client", name |-> "none", todo |-> <<>>, generation |-> 0,
          exit_game |-> FALSE, steps |-> 0, age |-> 0]

\* The state after construction: the caller has built the grid literal lit
\* and made the first Board of it, Board(grid=source).
Start(lit) ==
    LET r == BoardInit(lit, DEFAULT_BOARD_SIZE_X, DEFAULT_BOARD_SIZE_Y,
                       [none |-> FALSE, rows |-> Fresh(<<>>, Len(lit))])
    IN  /\ heap = r.heap
        /\ source = Fresh(<<>>, Len(lit))
        /\ boards = <<r.grid>>
        /\ calls = 0
        /\ last = Call("from_grid", 0, 0, 0, FALSE, 1, FALSE)
        /\ prev = lit
        /\ run = NoRun

Init == \E lit \in SampleGrids : Start(lit)

\* Board(size_x, size_y)
New(size_x, size_y) ==
    /\ calls < MaxOps
    /\ \E r \in {BoardInit(heap, size_x, size_y, NoGrid)} :
           /\ heap' = r.heap
           /\ boards' = Append(boards, r.grid)
    /\ last' = Call("Board", 0, size_x, size_y, FALSE, Len(boards) + 1, FALSE)
    /\ calls' = calls + 1
    /\ prev' = heap
    /\ UNCHANGED <<source, run>>

\* Board(grid=source); the sizes are left at their defaults.
FromGrid ==
    /\ calls < MaxOps
    /\ \E r \in {BoardInit(heap, DEFAULT_BOARD_SIZE_X, DEFAULT_BOARD_SIZE_Y,
                           [none |-> FALSE, rows |-> source])} :
           /\ heap' = r.heap
           /\ boards' = Append(boards, r.grid)
    /\ last' = Call("from_grid", 0, 0, 0, FALSE, Len(boards) + 1, FALSE)
    /\ calls' = calls + 1
    /\ prev' = heap
    /\ UNCHANGED <<source, run>>

\* Board(size_x, size_y, grid=source): sizes passed along with a grid.
FromGridSized(size_x, size_y) ==
    /\ calls < MaxOps
    /\ \E r \in {BoardInit(heap, size_x, size_y,
                           [none |-> FALSE, rows |-> source])} :
           /\ heap' = r.heap
           /\ boards' = Append(boards, r.grid)
    /\ last' = Call("from_grid", 0, size_x, size_y, FALSE, Len(boards) + 1, FALSE)
    /\ calls' = calls + 1
    /\ prev' = heap
    /\ UNCHANGED <<source, run>>

\* Board(grid=boards[b].grid): a Board made of another Board's grid.
CopyOf(b) ==
    /\ calls < MaxOps
    /\ \E r \in {BoardInit(heap, DEFAULT_BOARD_SIZE_X, DEFAULT_BOARD_SIZE_Y,
                           [none |-> FALSE, rows |-> boards[b]])} :
           /\ heap' = r.heap
           /\ boards' = Append(boards, r.grid)
    /\ last' = Call("copy_of", b, 0, 0, FALSE, Len(boards) + 1, FALSE)
    /\ calls' = calls + 1
    /\ prev' = heap
    /\ UNCHANGED <<source, run>>

\* boards[b].toggle(x, y)
Toggle(b, x, y) ==
    /\ calls < MaxOps
    /\ \E r \in {toggle(heap, boards[b], x, y)} :
           /\ heap' = r.heap
           /\ last' = Call("toggle", b, x, y, r.raised, 0,
                           /\ last.op = "toggle" /\ ~last.raised /\ ~r.raised
                           /\ last.b = b /\ last.x = x /\ last.y = y)
    /\ calls' = calls + 1
    /\ prev' = heap
    /\ UNCHANGED <<boards, source, run>>

\* boards[b].next_step(); the caller keeps the Board returned.
NextStep(b) ==
    /\ calls < MaxOps
    /\ \E r \in {next_step(heap, boards[b])} :
           /\ heap' = r.heap
           /\ boards' = IF r.raised THEN boards ELSE Append(boards, r.grid)
           /\ last' = Call("next_step", b, 0, 0, r.raised,
                           IF r.raised THEN 0 ELSE Len(boards) + 1,
                           last.op = "next_step" /\ last.b = b
                           /\ ~last.raised /\ ~r.raised)
    /\ calls' = calls + 1
    /\ prev' = heap
    /\ UNCHANGED <<source, run>>

\* The caller flips a cell of its own grid: source[y][x] = not source[y][x].
EditSource(x, y) ==
    /\ calls < MaxOps
    /\ \E r \in {toggle(heap, source, x, y)} :
           /\ ~r.raised
           /\ heap' = r.heap
    /\ last' = Call("edit", 0, x, y, FALSE, 0, FALSE)
    /\ calls' = calls + 1
    /\ prev' = heap
    /\ UNCHANGED <<boards, source, run>>

Next ==
    \/ \E size_x \in Sizes, size_y \in Sizes : New(size_x, size_y)
    \/ FromGrid
    \/ \E size_x \in Sizes, size_y \in Sizes : FromGridSized(size_x, size_y)
    \/ \E b \in 1..Len(boards) : CopyOf(b)
    \/ \E b \in 1..Len(boards), x \in Coords, y \in Coords : Toggle(b, x, y)
    \/ \E b \in 1..Len(boards) : NextStep(b)
    \/ \E x \in Coords, y \in Coords : EditSource(x, y)

Spec == Init /\ [][Next]_vars

\* next_step as a function of the grid: the caller builds any grid within the
\* bounds, makes a Board of it and steps that Board.
InitStep == \E lit \in AllGrids \cup WideGrids \cup TallGrids : Start(lit)

NextOfStep == NextStep(1)

SpecStep == InitStep /\ [][NextOfStep]_vars

----------------------------------------------------------------------------
\* Drivers: programs that hold one current Board, toggle a pattern into it
\* and then replace it, generation after generation, by its next_step().
\* boards = <<the current board's grid>>.  A superseded Board is unreachable
\* and is freed, so the heap holds the rows of the current Board only; prev is
\* the heap before the latest toggle or next_step.  In run, todo is the
\* toggles still to make, steps counts the next_step() calls made and age the
\* successive next_step() applications that led from the pattern to the
\* current board.

\* The patterns, as the toggles that make them.
Glider == << <<1, 0>>, <<2, 1>>, <<0, 2>>, <<1, 2>>, <<2, 2>> >>
Blinker == << <<1, 1>>, <<2, 1>>, <<3, 1>> >>
Demo == << <<0, 1>>, <<1, 2>>, <<2, 0>>, <<2, 1>>, <<2, 2>> >>

\* The state after board = Board(size_x, size_y), with pattern still to toggle.
Loaded(name, pattern, size_x, size_y) ==
    /\ heap = NewRows(size_x, size_y)
    /\ boards = <<Fresh(<<>>, size_y)>>
    /\ source = <<>>
    /\ calls = 0
    /\ last = Call("Board", 0, size_x, size_y, FALSE, 1, FALSE)
    /\ prev = <<>>
    /\ run = [pc |-> "setup", name |-> name, todo |-> pattern, generation |-> 0,
              exit_game |-> FALSE, steps |-> 0, age |-> 0]

\* board.toggle(x, y) for the next cell of the pattern.
Place ==
    /\ run.pc = "setup"
    /\ run.todo # <<>>
    /\ \E r \in {toggle(heap, boards[1], Head(run.todo)[1], Head(run.todo)[2])} :
           /\ heap' = r.heap
           /\ last' = Call("toggle", 1, Head(run.todo)[1], Head(run.todo)[2],
                           r.raised, 0, FALSE)
           /\ run' = [run EXCEPT !.todo = Tail(@),
                                 !.pc = IF r.raised THEN "raised" ELSE @]
    /\ prev' = heap
    /\ UNCHANGED <<boards, source, calls>>

\* board.next_step() is called and its result dropped.
StepBoardDropsResult(pc) ==
    /\ \E r \in {next_step(heap, boards[1])} :
           /\ last' = Call("next_step", 1, 0, 0, r.raised, 1, FALSE)
           /\ run' = [run EXCEPT !.pc = IF r.raised THEN "raised" ELSE pc,
                                 !.steps = @ + 1]
    /\ prev' = heap
    /\ UNCHANGED <<heap, boards, source, calls>>

\* board = board.next_step(), after which the driver is at pc.  An IndexError
\* out of next_step ends the program.
StepBoard(pc) ==
    /\ \E r \in {next_step(heap, boards[1])} :
           /\ heap' = IF r.raised THEN heap ELSE Contents(r.heap, r.grid)
           /\ boards' = IF r.raised THEN boards ELSE <<Fresh(<<>>, Len(r.grid))>>
           /\ last' = Call("next_step", 1, 0, 0, r.raised, 1, FALSE)
           /\ run' = [run EXCEPT !.pc = IF r.raised THEN "raised" ELSE pc,
                                 !.steps = @ + 1,
                                 !.age = IF r.raised THEN @ ELSE @ + 1]
    /\ prev' = heap
    /\ UNCHANGED <<source, calls>>

\* A run of a pattern: Board(size_x, size_y), the pattern's toggles, then
\* next_step() over and over.
GliderSides == 10..(10 + MaxExtra)
BlinkerSides == 5..(5 + MaxExtra)

InitPattern ==
    \/ \E size_x \in GliderSides, size_y \in GliderSides :
           Loaded("glider", Glider, size_x, size_y)
    \/ \E size_x \in BlinkerSides, size_y \in BlinkerSides :
           Loaded("blinker", Blinker, size_x, size_y)

Advance ==
    /\ run.pc = "setup"
    /\ run.todo = <<>>
    /\ run.steps < MaxRun
    /\ StepBoard("setup")

NextPattern == Place \/ Advance

SpecPattern == InitPattern /\ [][NextPattern]_vars

\* main(): board = Board() of CELL_COUNT_HORIZONTAL by CELL_COUNT_VERTICAL
\* cells (the sizes next_step's Board() has too), the five toggles, then the
\* loop.  pc is "top" at the while test passed, "count" before
\* generation += 1, "step" before board = board.next_step() and "done" once
\* the while test has failed.  generation is not bound before the loop; 0
\* stands for that.
InitMain == Loaded("demo", Demo, CELL_COUNT_HORIZONTAL, CELL_COUNT_VERTICAL)

\* exit_game = False; generation = 0; the first while test.
EnterLoop ==
    /\ run.pc = "setup"
    /\ run.name = "demo"
    /\ run.todo = <<>>
    /\ run' = [run EXCEPT !.pc = "top", !.exit_game = FALSE, !.generation = 0]
    /\ UNCHANGED <<heap, boards, source, calls, last, prev>>

\* The event loop (a QUIT event may have arrived), draw_board, the display
\* update and the sleep.
PollAndDraw ==
    /\ run.pc = "top"
    /\ run.generation < MaxGenerations
    /\ \E quit \in BOOLEAN :
           run' = [run EXCEPT !.pc = "count", !.exit_game = @ \/ quit]
    /\ UNCHANGED <<heap, boards, source, calls, last, prev>>

\* generation += 1
Count ==
    /\ run.pc = "count"
    /\ run' = [run EXCEPT !.pc = "step", !.generation = @ + 1]
    /\ UNCHANGED <<heap, boards, source, calls, last, prev>>

\* board = board.next_step(), the print, and the next while test.
MainStep ==
    /\ run.pc = "step"
    /\ StepBoard(IF run.exit_game THEN "done" ELSE "top")

NextMain == Place \/ EnterLoop \/ PollAndDraw \/ Count \/ MainStep

SpecMain == InitMain /\ [][NextMain]_vars

----------------------------------------------------------------------------
\* What the properties below speak of.

\* (x, y) is a coordinate of grid g: 0 <= y < height and 0 <= x < width.
InRange(h, g, x, y) ==
    /\ 0 <= y /\ y < Len(g)
    /\ 0 <= x /\ x < Len(h[g[y + 1]])

\* The cell of g at (x, y) exists and is live.
LiveAt(h, g, x, y) == InRange(h, g, x, y) /\ h[g[y + 1]][x + 1]

\* Every row of g is as long as its first row.
Rectangular(h, g) == \A i \in 1..Len(g) : Len(h[g[i]]) = Len(h[g[1]])

\* The coordinates of g.
CellsOf(h, g) ==
    UNION {{<<x, y>> : x \in 0..(Len(h[g[y + 1]]) - 1)} : y \in 0..(Len(g) - 1)}

\* The live cells of the Moore neighbourhood of (x, y) that lie in the grid.
MooreLive(h, g, x, y) ==
    Cardinality({p \in ((x - 1)..(x + 1)) \X ((y - 1)..(y + 1)) :
                   p # <<x, y>> /\ LiveAt(h, g, p[1], p[2])})

\* Conway's rule for the cell (x, y) of g.
LifeRule(h, g, x, y) ==
    \/ LiveAt(h, g, x, y) /\ MooreLive(h, g, x, y) \in {2, 3}
    \/ ~LiveAt(h, g, x, y) /\ MooreLive(h, g, x, y) = 3

\* The latest call was next_step and it returned a Board.
Stepped == last.op = "next_step" /\ ~last.raised

----------------------------------------------------------------------------
\* C1: whenever next_step() returns a Board, each coordinate (x, y) of the
\* (rectangular) receiver is live in the returned Board exactly when, in the
\* receiver's grid as it was before the call, the cell was live with 2 or 3
\* live neighbours or dead with exactly 3.
C1_NextGeneration ==
    (Stepped /\ Rectangular(prev, boards[last.b])) =>
        \A p \in CellsOf(prev, boards[last.b]) :
            LiveAt(heap, boards[last.made], p[1], p[2])
                <=> LifeRule(prev, boards[last.b], p[1], p[2])

\* A step in which one cell is born and another dies of overpopulation.
C1_Witness ==
    /\ Stepped
    /\ \E p \in CellsOf(prev, boards[last.b]) :
           /\ ~LiveAt(prev, boards[last.b], p[1], p[2])
           /\ LiveAt(heap, boards[last.made], p[1], p[2])
    /\ \E p \in CellsOf(prev, boards[last.b]) :
           /\ LiveAt(prev, boards[last.b], p[1], p[2])
           /\ MooreLive(prev, boards[last.b], p[1], p[2]) > 3
           /\ ~LiveAt(heap, boards[last.made], p[1], p[2])

\* C2: the Board returned by next_step() has as many rows as the receiver,
\* and each of its rows is as long as the receiver's row.
C2_SameDimensions ==
    Stepped =>
        /\ Len(boards[last.made]) = Len(boards[last.b])
        /\ \A i \in 1..Len(boards[last.b]) :
               Len(heap[boards[last.made][i]]) = Len(prev[boards[last.b][i]])

\* C3: next_step() leaves the receiver's grid cell for cell as it was before
\* the call, on every call, repeated calls on one receiver included.
C3_ReceiverUntouched ==
    last.op = "next_step" =>
        Contents(heap, boards[last.b]) = Contents(prev, boards[last.b])

\* A second next_step() on the same receiver, whose next generation differs
\* from the receiver at some coordinate.
C3_Witness ==
    /\ Stepped /\ last.twice
    /\ \E p \in CellsOf(prev, boards[last.b]) :
           LiveAt(prev, boards[last.b], p[1], p[2])
               # LiveAt(heap, boards[last.made], p[1], p[2])

\* C4: for every coordinate of the receiver, the neighbour count next_step
\* uses is the number of live cells among the up to 8 adjacent cells that lie
\* inside the grid; cells across the opposite edge do not count.
C4_NeighbourCount ==
    last.op = "next_step" =>
        \A p \in CellsOf(prev, boards[last.b]) :
            get_neighbour_count(prev, boards[last.b], p[1], p[2])
                = MooreLive(prev, boards[last.b], p[1], p[2])

\* The receiver is at least 3 wide, its corner (0, 0) has no live neighbour
\* and the cell at the far end of row 0 is live.
C4_Witness ==
    /\ last.op = "next_step"
    /\ Len(boards[last.b]) >= 1
    /\ Len(prev[boards[last.b][1]]) >= 3
    /\ LiveAt(prev, boards[last.b], Len(prev[boards[last.b][1]]) - 1, 0)
    /\ get_neighbour_count(prev, boards[last.b], 0, 0) = 0

----------------------------------------------------------------------------
\* The latest call was toggle(x, y); Target is the coordinate it named and
\* Receiver the grid of the Board it was called on.
Receiver == boards[last.b]
Target == <<last.x, last.y>>
ToggledInRange ==
    last.op = "toggle" /\ InRange(prev, Receiver, last.x, last.y)

\* C5: toggle(x, y) with an in-range coordinate does not raise and flips the
\* cell at (x, y); a second toggle(x, y) right after it leaves every row of
\* the heap, so the whole board, as it was before the first.
C5_ToggleFlipsAndUndoes ==
    [][ (/\ calls' = calls + 1
         /\ last'.op = "toggle"
         /\ InRange(heap, boards[last'.b], last'.x, last'.y))
        => /\ ~last'.raised
           /\ LiveAt(heap', boards[last'.b], last'.x, last'.y)
                  = ~LiveAt(heap, boards[last'.b], last'.x, last'.y)
           /\ last'.twice => heap' = prev ]_vars

\* Two toggles in a row of one in-range cell of a Board that has live cells.
C5_Witness ==
    /\ ToggledInRange /\ last.twice
    /\ \E p \in CellsOf(heap, Receiver) : LiveAt(heap, Receiver, p[1], p[2])

C7_OutOfRangeRaises ==
    (last.op = "toggle" /\ ~InRange(prev, Receiver, last.x, last.y)) =>
        last.raised /\ heap = prev

\* C8: Board(size_x, size_y) with size_x <= 0 or size_y <= 0 raises and
\* returns no Board.
C8_InvalidDimensions ==
    (last.op = "Board" /\ (last.x <= 0 \/ last.y <= 0)) =>
        last.raised /\ last.made = 0

\* C9: Board(grid=source) with a row of source whose length differs from the
\* first row's raises and returns no Board.
C9_MalformedGrid ==
    (last.op = "from_grid" /\ ~Rectangular(prev, source)) =>
        last.raised /\ last.made = 0

\* The row objects of grid g.
RowsIn(g) == {g[i] : i \in 1..Len(g)}

\* C10: no two Boards have a row object in common and no Board has one in
\* common with the caller's grid; a toggle on one Board changes no cell of
\* another Board or of the caller's grid, and a change the caller makes to its
\* grid changes no cell of a Board.
C10_NoSharedStorage ==
    /\ \A b \in 1..Len(boards) :
           /\ RowsIn(boards[b]) \cap RowsIn(source) = {}
           /\ \A c \in 1..Len(boards) :
                  c # b => RowsIn(boards[b]) \cap RowsIn(boards[c]) = {}
    /\ last.op = "toggle" =>
           /\ Contents(heap, source) = Contents(prev, source)
           /\ \A c \in 1..Len(boards) :
                  c # last.b => Contents(heap, boards[c]) = Contents(prev, boards[c])
    /\ last.op = "edit" =>
           \A c \in 1..Len(boards) :
               Contents(heap, boards[c]) = Contents(prev, boards[c])

\* A toggle has flipped a cell of a Board while a second Board holds what the
\* first held before the toggle.
C10_Witness ==
    /\ last.op = "toggle" /\ ~last.raised
    /\ \E c \in 1..Len(boards) :
           /\ c # last.b
           /\ Contents(heap, boards[c]) = Contents(prev, Receiver)
           /\ Contents(heap, boards[c]) # Contents(heap, Receiver)

----------------------------------------------------------------------------
\* The live cells of grid g, and a pattern moved by (dx, dy).
LiveSet(h, g) == {p \in CellsOf(h, g) : LiveAt(h, g, p[1], p[2])}
Shift(pattern, dx, dy) ==
    {<<pattern[i][1] + dx, pattern[i][2] + dy>> : i \in 1..Len(pattern)}

\* The pattern of the run is in place and n next_step() calls have been made.
After(name, n) ==
    run.name = name /\ run.pc = "setup" /\ run.todo = <<>> /\ run.steps = n

\* C11: on a board of at least 10x10 holding only the glider, after exactly
\* 4 calls of next_step() the live cells are the glider moved by (+1, +1) and
\* nothing else.
C11_GliderAfterFour ==
    After("glider", 4) => LiveSet(heap, boards[1]) = Shift(Glider, 1, 1)

\* The glider run has made its fourth step.
C11_Witness == After("glider", 4) /\ Cardinality(LiveSet(heap, boards[1])) = 5

\* C12: on a board of at least 5x5 holding only the horizontal run (1,1),
\* (2,1), (3,1), the live cells are the vertical run (2,0), (2,1), (2,2) after
\* every odd number of next_step() calls and the horizontal run after every
\* even number.
C12_BlinkerOscillates ==
    (run.name = "blinker" /\ run.pc = "setup" /\ run.todo = <<>>) =>
        LiveSet(heap, boards[1]) =
            IF run.steps % 2 = 1 THEN {<<2, 0>>, <<2, 1>>, <<2, 2>>}
            ELSE Shift(Blinker, 0, 0)

\* The blinker run is back at the horizontal run after two steps.
C12_Witness == After("blinker", 2) /\ <<1, 1>> \in LiveSet(heap, boards[1])

\* Grid g has no live cell.
AllDead(h, g) == \A p \in CellsOf(h, g) : ~h[g[p[2] + 1]][p[1] + 1]

\* C13: next_step() on an all-dead board returns an all-dead board of the
\* same size.
C13_EmptyFixedPoint ==
    (last.op = "next_step" /\ AllDead(prev, Receiver)) =>
        /\ ~last.raised
        /\ Contents(heap, boards[last.made]) = Contents(prev, Receiver)

\* C14: every Board holds a rectangular grid, and a Board returned by
\* next_step() has the receiver's number of rows and row length.
C14_AlwaysRectangular ==
    /\ \A b \in 1..Len(boards) : Rectangular(heap, boards[b])
    /\ Stepped =>
           /\ Len(boards[last.made]) = Len(Receiver)
           /\ \A i \in 1..Len(Receiver) :
                  Len(heap[boards[last.made][i]]) = Len(heap[Receiver[1]])

\* C15: next_step() never raises: every call returns a Board.
C15_NextStepTotal == last.op = "next_step" => ~last.raised

\* C16: Board(size_x, size_y, grid=source) returns a Board whose rows are,
\* cell for cell, the rows of source at the time of the call, whatever
\* size_x and size_y are.
C16_GridOverridesSizes ==
    last.op = "from_grid" =>
        /\ ~last.raised
        /\ Contents(heap, boards[last.made]) = Contents(prev, source)

\* A Board made with sizes 2 by 2 passed along with a grid of one row of
\* three cells.
C16_Witness ==
    /\ last.op = "from_grid" /\ calls > 0
    /\ last.x = 2 /\ last.y = 2
    /\ Len(source) = 1
    /\ Len(heap[boards[last.made][1]]) = 3

\* C17: for every coordinate of the receiver, the neighbour count is in 0..8,
\* it is the number of live cells among the positions the scan reads, and
\* every position read lies inside the grid and is not the cell itself.
C17_CountInBounds ==
    last.op = "next_step" =>
        \A p \in CellsOf(prev, Receiver) :
            /\ \A q \in Probes(prev, Receiver, p[1], p[2]) :
                   InRange(prev, Receiver, q[1], q[2]) /\ q # p
            /\ get_neighbour_count(prev, Receiver, p[1], p[2]) \in 0..8
            /\ get_neighbour_count(prev, Receiver, p[1], p[2])
                   = Cardinality({q \in Probes(prev, Receiver, p[1], p[2]) :
                                    LiveAt(prev, Receiver, q[1], q[2])})

\* The corner (0, 0) of the receiver has all three of its neighbours live.
C17_Witness ==
    /\ last.op = "next_step"
    /\ Len(Receiver) >= 2
    /\ get_neighbour_count(prev, Receiver, 0, 0) = 3

\* C18: in main's loop, whenever the while test is made the generation
\* counter is the number of next_step() calls made and the current board is
\* the pattern stepped that many times (so, every fourth generation while it
\* fits in the grid, the pattern moved one cell down and right); generation
\* is one ahead between the increment and the step, and the toggles leave it
\* alone.
C18_GenerationCounter ==
    /\ run.pc = "setup" => run.generation = 0 /\ run.steps = 0
    /\ run.pc \in {"top", "count", "done"} =>
           run.generation = run.steps /\ run.age = run.steps
    /\ run.pc = "step" => run.generation = run.steps + 1
    /\ ( /\ run.pc = "top"
         /\ run.generation % 4 = 0
         /\ Shift(Demo, run.generation \div 4, run.generation \div 4)
                \subseteq CellsOf(heap, boards[1]) ) =>
           LiveSet(heap, boards[1])
               = Shift(Demo, run.generation \div 4, run.generation \div 4)

\* The while test after eight generations.
C18_Witness == run.pc = "top" /\ run.generation = 8 /\ run.steps = 8

\* The latest next_step() returned a board equal to its receiver.
Settled == run.steps > 0 /\ heap = prev

\* C19: in main, by the time the while test has been made MaxGenerations
\* times the board is one that next_step() maps to itself, and once the board
\* is such a one no later step of the program changes it.
C19_ReachesStillLife ==
    /\ [](run.pc = "top" /\ run.generation = MaxGenerations => Settled)
    /\ [][Settled => Settled']_vars

\* The board has settled as the block at the bottom edge.
C19_Witness ==
    /\ run.pc = "top" /\ Settled
    /\ LiveSet(heap, boards[1]) = {<<23, 22>>, <<24, 22>>, <<23, 23>>, <<24, 23>>}

============================================================================
